---- MODULE Spec2Model ----
(***************************************************************************)
(* Model of polemarch/main/utils.py: the cache-backed Lock, the lock       *)
(* decorators, raise_context, ModelHandlers.backend and Paginator.         *)
(*                                                                         *)
(* Time inside Lock.__init__ is counted in polling intervals (one          *)
(* time.sleep(0.01) = one tick); the time-to-live of a cache entry is      *)
(* counted in seconds, as the code passes it to cache.add.  The cache is   *)
(* Django's: add stores only under an absent key, delete removes a key,    *)
(* and None is a key like any other.                                       *)
(***************************************************************************)
EXTENDS Integers, Sequences, FiniteSets, TLC

\* ---------------------------------------------------------------- bounds
NumProcs == 2
NumThreads == 3
MaxRepeat == 1
DecoRepeat == 0

\* ------------------------------------------------------------- constants
TIMEOUT == 86400

None == "None"
NoExpiry == 0 - 1
Procs == 1..NumProcs
Threads == 1..NumThreads
Keys == {"k1"}
CacheKeys == Keys \cup {None}
Msgs == {"", "busy"}
_err == "Service locked. Wait until the end."
TimeSteps == {TIMEOUT \div 2, TIMEOUT}

NoExc == [type |-> None, msg |-> ""]
BodyError == [type |-> "BodyError", msg |-> ""]
AcquireLockException(m) == [type |-> "AcquireLockException", msg |-> m]

Absent == [present |-> FALSE, payload |-> None, ttl |-> 0]
NoLock == [id |-> None, key |-> None, repeat |-> 0, err_msg |-> "", elapsed |-> 0]

VARIABLES
    cache,          \* the shared cache: key -> entry
    pc,             \* where each process is
    lock,           \* the Lock object each process is building or owns
    mode,           \* "direct": Lock used by the caller; "deco": through service_lock
    my_pk,          \* the pk keyword of a process's service_lock call
    raised,         \* the exception in flight in each process
    released,       \* ghost: release already ran on the current object
    dec_lock_key,   \* service_lock instance attribute _lock_key
    dec_kwargs      \* service_lock instance attribute kwargs

lockvars == <<cache, pc, lock, mode, my_pk, raised, released,
              dec_lock_key, dec_kwargs>>

VARIABLES
    rc_self,        \* the raise_context instance: _excepts, _verbose
    rc_func,        \* the exception type the wrapped function raises, or None
    rc_pc,          \* "ready", then "decorated" or "entered": how execute was reached
    rc_out          \* what the caller of execute sees

rcvars == <<rc_self, rc_func, rc_pc, rc_out>>

VARIABLES
    mh_settings,    \* what ModelHandlers.list() returns: name -> options
    mh_name,        \* the name asked for
    mh_pc,          \* "ready", "done"
    mh_out          \* what backend(name) returned or raised

mhvars == <<mh_settings, mh_name, mh_pc, mh_out>>

VARIABLES
    pg_qs,          \* the underlying sequence
    pg_per_page,    \* chunk_size
    pg_pc,          \* "pages": between pages; "items": inside a page; "done"
    pg_page,        \* the page __iter__ yielded last: number and object_list
    pg_i,           \* how many objects of that page items() has yielded
    pg_out          \* the objects items() has yielded, with their attributes

pgvars == <<pg_qs, pg_per_page, pg_pc, pg_page, pg_i, pg_out>>

\* ------------------------------------------------------ the shared cache
\* cache.add(key, value, timeout): stores only when the key is absent
cache_add_ok(c, key) == ~c[key].present

cache_add(c, key, payload, timeout) ==
    IF c[key].present THEN c
    ELSE [c EXCEPT ![key] = [present |-> TRUE, payload |-> payload, ttl |-> timeout]]

\* cache.delete(key)
cache_delete(c, key) == [c EXCEPT ![key] = Absent]

\* the cache drops an entry whose time-to-live has run out
cache_age(c, d) ==
    [k \in CacheKeys |->
        IF c[k].present /\ c[k].ttl # NoExpiry
        THEN IF c[k].ttl - d <= 0 THEN Absent ELSE [c[k] EXCEPT !.ttl = @ - d]
        ELSE c[k]]

\* ------------------------------------------------------------------ Lock
\* __LockAbstractDecorator.__init__(**kwargs)
DecoratorKwargs(kw) ==
    [repeat |-> kw.repeat,
     err_msg |-> IF kw.err_msg = None THEN _err ELSE kw.err_msg]

\* Lock.__init__, line 92: self.id, start = None, time.time()
LockNew(p, k, r, m) ==
    /\ pc[p] = "idle"
    /\ pc' = [pc EXCEPT ![p] = "init"]
    /\ mode' = [mode EXCEPT ![p] = "direct"]
    /\ lock' = [lock EXCEPT ![p] =
                  [id |-> None, key |-> k, repeat |-> r, err_msg |-> m, elapsed |-> 0]]
    /\ UNCHANGED <<cache, my_pk, raised, released, dec_lock_key, dec_kwargs>>
    /\ UNCHANGED <<rcvars, mhvars, pgvars>>

\* cache.add(id, payload) without a timeout argument that ends the entry's life
AddTimeoutNever == NoExpiry

\* the timeout Lock.__init__ hands to cache.add
AddTimeout == TIMEOUT

\* Lock.__init__, lines 93-97: one turn of the polling loop
LockTryAdd(p) ==
    /\ pc[p] = "init"
    /\ lock[p].elapsed <= lock[p].repeat
    /\ IF cache_add_ok(cache, lock[p].key)
       THEN /\ cache' = cache_add(cache, lock[p].key, None, AddTimeout)
            /\ lock' = [lock EXCEPT ![p] = [NoLock EXCEPT !.id = lock[p].key]]
            /\ pc' = [pc EXCEPT ![p] = IF mode[p] = "deco" THEN "body" ELSE "alive"]
       ELSE /\ lock' = [lock EXCEPT ![p].elapsed = @ + 1]
            /\ UNCHANGED <<cache, pc>>
    /\ UNCHANGED <<mode, my_pk, raised, released, dec_lock_key, dec_kwargs>>
    /\ UNCHANGED <<rcvars, mhvars, pgvars>>

\* Lock.__init__ raising without the caller's message
LockRaiseNoMsg(p) ==
    /\ pc[p] = "init"
    /\ lock[p].elapsed > lock[p].repeat
    /\ raised' = [raised EXCEPT ![p] = AcquireLockException("")]
    /\ pc' = [pc EXCEPT ![p] = "failed"]
    /\ lock' = [lock EXCEPT ![p] = [NoLock EXCEPT !.key = lock[p].key]]
    /\ UNCHANGED <<cache, mode, my_pk, released, dec_lock_key, dec_kwargs>>
    /\ UNCHANGED <<rcvars, mhvars, pgvars>>

\* Lock.__init__, line 98: the window is over
LockRaise(p) ==
    /\ pc[p] = "init"
    /\ lock[p].elapsed > lock[p].repeat
    /\ raised' = [raised EXCEPT ![p] = AcquireLockException(lock[p].err_msg)]
    /\ pc' = [pc EXCEPT ![p] = "failed"]
    /\ lock' = [lock EXCEPT ![p] = [NoLock EXCEPT !.key = lock[p].key]]
    /\ UNCHANGED <<cache, mode, my_pk, released, dec_lock_key, dec_kwargs>>
    /\ UNCHANGED <<rcvars, mhvars, pgvars>>

\* Lock.release, line 107: cache.delete(self.id)
release(c, l) == cache_delete(c, l.id)

\* an explicit lock.release() by the caller
Release(p) ==
    /\ pc[p] \in {"alive", "after"}
    /\ mode[p] = "direct"
    /\ cache' = release(cache, lock[p])
    /\ released' = [released EXCEPT ![p] = TRUE]
    /\ UNCHANGED <<pc, lock, mode, my_pk, raised, dec_lock_key, dec_kwargs>>
    /\ UNCHANGED <<rcvars, mhvars, pgvars>>

\* Lock.__enter__: `with lock:` on an object the caller built
Enter(p) ==
    /\ pc[p] = "alive"
    /\ mode[p] = "direct"
    /\ pc' = [pc EXCEPT ![p] = "body"]
    /\ UNCHANGED <<cache, lock, mode, my_pk, raised, released,
                   dec_lock_key, dec_kwargs>>
    /\ UNCHANGED <<rcvars, mhvars, pgvars>>

\* the body of the with-block (or the decorated function) ends, normally or not
BodyEnd(p, e) ==
    /\ pc[p] = "body"
    /\ raised' = [raised EXCEPT ![p] = e]
    /\ pc' = [pc EXCEPT ![p] = "exit"]
    /\ UNCHANGED <<cache, lock, mode, my_pk, released, dec_lock_key, dec_kwargs>>
    /\ UNCHANGED <<rcvars, mhvars, pgvars>>

\* what Lock.__exit__ returns: None, so the body's exception is not suppressed
ExitSuppresses == FALSE

\* Lock.__exit__ that leaves the release to __del__
WithExitNoRelease(p) ==
    /\ pc[p] = "exit"
    /\ released' = [released EXCEPT ![p] = TRUE]
    /\ pc' = [pc EXCEPT ![p] = "after"]
    /\ UNCHANGED <<cache, raised, lock, mode, my_pk, dec_lock_key, dec_kwargs>>
    /\ UNCHANGED <<rcvars, mhvars, pgvars>>

\* Lock.__exit__, lines 103-104
WithExit(p) ==
    /\ pc[p] = "exit"
    /\ cache' = release(cache, lock[p])
    /\ released' = [released EXCEPT ![p] = TRUE]
    /\ raised' = [raised EXCEPT ![p] = IF ExitSuppresses THEN NoExc ELSE @]
    /\ pc' = [pc EXCEPT ![p] = "after"]
    /\ UNCHANGED <<lock, mode, my_pk, dec_lock_key, dec_kwargs>>
    /\ UNCHANGED <<rcvars, mhvars, pgvars>>

\* Lock.__del__, lines 109-110: the object is destroyed
Del(p) ==
    /\ pc[p] \in {"alive", "after", "failed"}
    /\ cache' = release(cache, lock[p])
    /\ pc' = [pc EXCEPT ![p] = "idle"]
    /\ lock' = [lock EXCEPT ![p] = NoLock]
    /\ mode' = [mode EXCEPT ![p] = "direct"]
    /\ my_pk' = [my_pk EXCEPT ![p] = None]
    /\ raised' = [raised EXCEPT ![p] = NoExc]
    /\ released' = [released EXCEPT ![p] = FALSE]
    /\ UNCHANGED <<dec_lock_key, dec_kwargs>>
    /\ UNCHANGED <<rcvars, mhvars, pgvars>>

\* ---------------------------------------------------------- service_lock
\* service_lock.execute, line 137: self._lock_key = kwargs.get('pk', None)
DecoCall(p, pk) ==
    /\ pc[p] = "idle"
    /\ dec_lock_key' = pk
    /\ my_pk' = [my_pk EXCEPT ![p] = pk]
    /\ mode' = [mode EXCEPT ![p] = "deco"]
    /\ pc' = [pc EXCEPT ![p] = "d122"]
    /\ UNCHANGED <<cache, lock, raised, released, dec_kwargs>>
    /\ UNCHANGED <<rcvars, mhvars, pgvars>>

\* __LockAbstractDecorator.execute, line 122: if self._lock_key is not None
DecoCheck(p) ==
    /\ pc[p] = "d122"
    /\ pc' = [pc EXCEPT ![p] = IF dec_lock_key # None THEN "d123" ELSE "nolock"]
    /\ UNCHANGED <<cache, lock, mode, my_pk, raised, released,
                   dec_lock_key, dec_kwargs>>
    /\ UNCHANGED <<rcvars, mhvars, pgvars>>

\* __LockAbstractDecorator.execute, line 123: Lock(self._lock_key, **self.kwargs)
DecoLock(p) ==
    /\ pc[p] = "d123"
    /\ lock' = [lock EXCEPT ![p] =
                  [id |-> None, key |-> dec_lock_key, repeat |-> dec_kwargs.repeat,
                   err_msg |-> dec_kwargs.err_msg, elapsed |-> 0]]
    /\ pc' = [pc EXCEPT ![p] = "init"]
    /\ UNCHANGED <<cache, mode, my_pk, raised, released, dec_lock_key, dec_kwargs>>
    /\ UNCHANGED <<rcvars, mhvars, pgvars>>

\* __LockAbstractDecorator.execute, line 125: the function runs without a lock
FuncNoLock(p) ==
    /\ pc[p] = "nolock"
    /\ pc' = [pc EXCEPT ![p] = "idle"]
    /\ mode' = [mode EXCEPT ![p] = "direct"]
    /\ my_pk' = [my_pk EXCEPT ![p] = None]
    /\ UNCHANGED <<cache, lock, raised, released, dec_lock_key, dec_kwargs>>
    /\ UNCHANGED <<rcvars, mhvars, pgvars>>

\* -------------------------------------------- crashes and entry expiry
\* a Lock object holds its key from the return of __init__ to its first release
Holder(p) == pc[p] \in {"alive", "body", "exit", "after"} /\ ~released[p]

\* the holder's process dies: no __exit__, no __del__, no release
Crash(p) ==
    /\ Holder(p)
    /\ pc' = [pc EXCEPT ![p] = "crashed"]
    /\ UNCHANGED <<cache, lock, mode, my_pk, raised, released, dec_lock_key, dec_kwargs>>
    /\ UNCHANGED <<rcvars, mhvars, pgvars>>

\* d seconds pass: the cache ages its entries
AdvanceTime(d) ==
    /\ cache' = cache_age(cache, d)
    /\ UNCHANGED <<pc, lock, mode, my_pk, raised, released, dec_lock_key, dec_kwargs>>
    /\ UNCHANGED <<rcvars, mhvars, pgvars>>

\* ========================================================= raise_context
\* the part of Python's exception hierarchy the calls below can raise
ExcTypes == {"BaseException", "Exception", "LookupError", "KeyError", "ValueError"}

Parent ==
    [t \in ExcTypes |->
        CASE t = "BaseException" -> None
          [] t = "Exception" -> "BaseException"
          [] t = "LookupError" -> "Exception"
          [] t = "KeyError" -> "LookupError"
          [] t = "ValueError" -> "Exception"]

\* a classinfo argument of issubclass: a class, or a tuple of classinfos
Class(n) == [kind |-> "class", name |-> n, items |-> {}]
Tuple(items) == [kind |-> "tuple", name |-> "", items |-> items]

RECURSIVE IsSubclassOfClass(_, _)
IsSubclassOfClass(t, c) ==
    \/ t = c
    \/ (Parent[t] # None /\ IsSubclassOfClass(Parent[t], c))

RECURSIVE issubclass(_, _)
issubclass(t, info) ==
    IF info.kind = "class" THEN IsSubclassOfClass(t, info.name)
    ELSE \E i \in info.items : issubclass(t, i)

\* assertRaises.__init__(*args, **kwargs), lines 165-167
assertRaises_init(args, verbose) == [_excepts |-> Tuple(args), _verbose |-> verbose]

\* assertRaises.__exit__ without the negation
assertRaises_exit_selected(self, exc_type) ==
    exc_type # None /\ issubclass(exc_type, self._excepts)

\* assertRaises.__exit__, line 173: a true result suppresses the exception
assertRaises_exit(self, exc_type) ==
    exc_type # None /\ ~issubclass(exc_type, self._excepts)

\* raise_context.execute, lines 179-182
execute(self, func) ==
    LET ctx == assertRaises_init({self._excepts}, self._verbose)
    IN  IF func = None THEN [raised |-> None, value |-> "result"]
        ELSE IF assertRaises_exit(ctx, func)
             THEN [raised |-> None, value |-> "exc_info"]
             ELSE [raised |-> func, value |-> ""]

\* raise_context.__call__, lines 187-191: the decorated function is called
RcDecorated ==
    /\ rc_pc = "ready"
    /\ rc_out' = execute(rc_self, rc_func)
    /\ rc_pc' = "decorated"
    /\ UNCHANGED <<rc_self, rc_func>>
    /\ UNCHANGED <<lockvars, mhvars, pgvars>>

\* raise_context.__enter__, lines 184-185: `with raise_context(...) as ex: ex(func)`
RcEntered ==
    /\ rc_pc = "ready"
    /\ rc_out' = execute(rc_self, rc_func)
    /\ rc_pc' = "entered"
    /\ UNCHANGED <<rc_self, rc_func>>
    /\ UNCHANGED <<lockvars, mhvars, pgvars>>

\* ========================================================= ModelHandlers
\* a dotted path is the sequence of its characters
Dot == "."
PathGood == <<"p", Dot, "m", Dot, "G">>
PathNoModule == <<"p", Dot, "x", Dot, "G">>
PathNoClass == <<"p", Dot, "m", Dot, "H">>
PathNoDot == <<"G">>
Paths == {PathGood, PathNoModule, PathNoClass, PathNoDot}

\* the importable modules and the names each defines
Modules == (<<"p", Dot, "m">> :> {<<"G">>})

HandlerNames == {"a", "b"}
LookupNames == HandlerNames \cup {"c"}

\* str.rfind: the 0-based index of the last occurrence, -1 when there is none
rfind(s, ch) ==
    LET hits == {i \in 1..Len(s) : s[i] = ch}
    IN  IF hits = {} THEN 0 - 1
        ELSE (CHOOSE i \in hits : \A j \in hits : j <= i) - 1

\* s[a:b] of Python, a and b 0-based, a negative bound counted from the end
PySlice(s, a, b) ==
    LET lo == IF a < 0 THEN (IF Len(s) + a < 0 THEN 0 ELSE Len(s) + a)
              ELSE (IF a > Len(s) THEN Len(s) ELSE a)
        hi == IF b < 0 THEN (IF Len(s) + b < 0 THEN 0 ELSE Len(s) + b)
              ELSE (IF b > Len(s) THEN Len(s) ELSE b)
    IN  IF hi <= lo THEN <<>> ELSE [i \in 1..(hi - lo) |-> s[lo + i]]

NoClass == <<>>
Returned(cls) == [exc |-> None, arg |-> "", cls |-> cls]
Raised(t, a) == [exc |-> t, arg |-> a, cls |-> NoClass]

\* import_class, lines 21-25
import_class(path) ==
    LET m_len == rfind(path, Dot)
        class_name == PySlice(path, m_len + 1, Len(path))
        module == PySlice(path, 0, m_len)
    IN  IF module = <<>> THEN Raised("ValueError", "")
        ELSE IF module \notin DOMAIN Modules THEN Raised("ImportError", "")
        ELSE IF class_name \notin Modules[module] THEN Raised("AttributeError", "")
        ELSE Returned(class_name)

\* `KeyError or ImportError`: the first operand of `or` when it is true, and a
\* class is true
PyOr(a, b) == IF a # None THEN a ELSE b

\* the except clause of ModelHandlers.backend, line 154
ExceptClause == {PyOr("KeyError", "ImportError")}

HandlerEntries == [has_backend : {FALSE}, BACKEND : {<<>>}]
                      \cup [has_backend : {TRUE}, BACKEND : Paths]

\* ModelHandlers.backend, lines 148-155
backend(settings, name) ==
    LET try ==
            IF name \notin DOMAIN settings THEN Raised("KeyError", name)
            ELSE IF ~settings[name].has_backend THEN Raised("PMException", "Backend is 'None'.")
            ELSE import_class(settings[name].BACKEND)
    IN  IF try.exc \in ExceptClause
        THEN Raised("UnknownModelHandlerException", name)
        ELSE try

\* a call of ModelHandlers(tp).backend(name)
MhBackend ==
    /\ mh_pc = "ready"
    /\ mh_out' = backend(mh_settings, mh_name)
    /\ mh_pc' = "done"
    /\ UNCHANGED <<mh_settings, mh_name>>
    /\ UNCHANGED <<lockvars, rcvars, pgvars>>

\* ============================================================= Paginator
MaxN == 6
MaxChunk == 4

\* django.core.paginator.Paginator.num_pages (orphans = 0, allow_empty_first_page)
num_pages(qs, per_page) ==
    LET count == Len(qs)
        hits == IF count < 1 THEN 1 ELSE count
    IN  (hits + per_page - 1) \div per_page

\* django.core.paginator.Paginator.page(number)
page(qs, per_page, number) ==
    LET bottom == (number - 1) * per_page
        top0 == bottom + per_page
        top == IF top0 >= Len(qs) THEN Len(qs) ELSE top0
    IN  [number |-> number, object_list |-> PySlice(qs, bottom, top)]

NoPage == [number |-> 0, object_list |-> <<>>]

\* Paginator.__iter__ over range(1, self.num_pages)
PgNextPageShort ==
    /\ pg_pc = "pages"
    /\ IF pg_page.number + 1 \in 1..(num_pages(pg_qs, pg_per_page) - 1)
       THEN /\ pg_page' = page(pg_qs, pg_per_page, pg_page.number + 1)
            /\ pg_pc' = "items"
       ELSE /\ pg_pc' = "done"
            /\ UNCHANGED pg_page
    /\ pg_i' = 0
    /\ UNCHANGED <<pg_qs, pg_per_page, pg_out>>
    /\ UNCHANGED <<lockvars, rcvars, mhvars>>

\* Paginator.__iter__, lines 242-244: the next page, or the end of the range
PgNextPage ==
    /\ pg_pc = "pages"
    /\ IF pg_page.number + 1 \in 1..num_pages(pg_qs, pg_per_page)
       THEN /\ pg_page' = page(pg_qs, pg_per_page, pg_page.number + 1)
            /\ pg_pc' = "items"
       ELSE /\ pg_pc' = "done"
            /\ UNCHANGED pg_page
    /\ pg_i' = 0
    /\ UNCHANGED <<pg_qs, pg_per_page, pg_out>>
    /\ UNCHANGED <<lockvars, rcvars, mhvars>>

\* Paginator.items, lines 247-251: the next object of the page, or the page's end
PgNextItem ==
    /\ pg_pc = "items"
    /\ IF pg_i < Len(pg_page.object_list)
       THEN /\ pg_out' = Append(pg_out, [obj |-> pg_page.object_list[pg_i + 1],
                                         page |-> pg_page,
                                         paginator |-> "self"])
            /\ pg_i' = pg_i + 1
            /\ UNCHANGED pg_pc
       ELSE /\ pg_pc' = "pages"
            /\ UNCHANGED <<pg_out, pg_i>>
    /\ UNCHANGED <<pg_qs, pg_per_page, pg_page>>
    /\ UNCHANGED <<lockvars, rcvars, mhvars>>

\* ======================================================== specifications
vars == <<lockvars, rcvars, mhvars, pgvars>>

\* no Lock object exists, the cache is empty, the decorator is service_lock(repeat=DecoRepeat)
Init ==
    /\ cache = [k \in CacheKeys |-> Absent]
    /\ pc = [p \in Procs |-> "idle"]
    /\ lock = [p \in Procs |-> NoLock]
    /\ mode = [p \in Procs |-> "direct"]
    /\ my_pk = [p \in Procs |-> None]
    /\ raised = [p \in Procs |-> NoExc]
    /\ released = [p \in Procs |-> FALSE]
    /\ dec_lock_key = None
    /\ dec_kwargs = DecoratorKwargs([repeat |-> DecoRepeat, err_msg |-> None])
    /\ rc_self = assertRaises_init({}, FALSE)
    /\ rc_func = None
    /\ rc_pc = "idle"
    /\ rc_out = [raised |-> None, value |-> ""]
    /\ mh_settings = [n \in {} |-> [has_backend |-> FALSE, BACKEND |-> <<>>]]
    /\ mh_name = "a"
    /\ mh_pc = "idle"
    /\ mh_out = Returned(NoClass)
    /\ pg_qs = <<>>
    /\ pg_per_page = 1
    /\ pg_pc = "idle"
    /\ pg_page = NoPage
    /\ pg_i = 0
    /\ pg_out = <<>>

\* the same, with NumThreads threads of one server process
InitThreads ==
    /\ cache = [k \in CacheKeys |-> Absent]
    /\ pc = [p \in Threads |-> "idle"]
    /\ lock = [p \in Threads |-> NoLock]
    /\ mode = [p \in Threads |-> "direct"]
    /\ my_pk = [p \in Threads |-> None]
    /\ raised = [p \in Threads |-> NoExc]
    /\ released = [p \in Threads |-> FALSE]
    /\ dec_lock_key = None
    /\ dec_kwargs = DecoratorKwargs([repeat |-> DecoRepeat, err_msg |-> None])
    /\ rc_self = assertRaises_init({}, FALSE)
    /\ rc_func = None
    /\ rc_pc = "idle"
    /\ rc_out = [raised |-> None, value |-> ""]
    /\ mh_settings = [n \in {} |-> [has_backend |-> FALSE, BACKEND |-> <<>>]]
    /\ mh_name = "a"
    /\ mh_pc = "idle"
    /\ mh_out = Returned(NoClass)
    /\ pg_qs = <<>>
    /\ pg_per_page = 1
    /\ pg_pc = "idle"
    /\ pg_page = NoPage
    /\ pg_i = 0
    /\ pg_out = <<>>

\* a raise_context(E1, ..., En) and a function that raises or returns
InitRC ==
    /\ cache = [k \in CacheKeys |-> Absent]
    /\ pc = [p \in Procs |-> "off"]
    /\ lock = [p \in Procs |-> NoLock]
    /\ mode = [p \in Procs |-> "direct"]
    /\ my_pk = [p \in Procs |-> None]
    /\ raised = [p \in Procs |-> NoExc]
    /\ released = [p \in Procs |-> FALSE]
    /\ dec_lock_key = None
    /\ dec_kwargs = DecoratorKwargs([repeat |-> DecoRepeat, err_msg |-> None])
    /\ rc_self \in {assertRaises_init({Class(e) : e \in E}, FALSE) : E \in SUBSET ExcTypes}
    /\ rc_func \in ExcTypes \cup {None}
    /\ rc_pc = "ready"
    /\ rc_out = [raised |-> None, value |-> ""]
    /\ mh_settings = [n \in {} |-> [has_backend |-> FALSE, BACKEND |-> <<>>]]
    /\ mh_name = "a"
    /\ mh_pc = "idle"
    /\ mh_out = Returned(NoClass)
    /\ pg_qs = <<>>
    /\ pg_per_page = 1
    /\ pg_pc = "idle"
    /\ pg_page = NoPage
    /\ pg_i = 0
    /\ pg_out = <<>>

\* a handler mapping in the settings and a name to look up
InitMH ==
    /\ cache = [k \in CacheKeys |-> Absent]
    /\ pc = [p \in Procs |-> "off"]
    /\ lock = [p \in Procs |-> NoLock]
    /\ mode = [p \in Procs |-> "direct"]
    /\ my_pk = [p \in Procs |-> None]
    /\ raised = [p \in Procs |-> NoExc]
    /\ released = [p \in Procs |-> FALSE]
    /\ dec_lock_key = None
    /\ dec_kwargs = DecoratorKwargs([repeat |-> DecoRepeat, err_msg |-> None])
    /\ rc_self = assertRaises_init({}, FALSE)
    /\ rc_func = None
    /\ rc_pc = "idle"
    /\ rc_out = [raised |-> None, value |-> ""]
    /\ mh_settings \in UNION {[D -> HandlerEntries] : D \in SUBSET HandlerNames}
    /\ mh_name \in LookupNames
    /\ mh_pc = "ready"
    /\ mh_out = Returned(NoClass)
    /\ pg_qs = <<>>
    /\ pg_per_page = 1
    /\ pg_pc = "idle"
    /\ pg_page = NoPage
    /\ pg_i = 0
    /\ pg_out = <<>>

\* a Paginator over a sequence of n objects
InitPG ==
    /\ cache = [k \in CacheKeys |-> Absent]
    /\ pc = [p \in Procs |-> "off"]
    /\ lock = [p \in Procs |-> NoLock]
    /\ mode = [p \in Procs |-> "direct"]
    /\ my_pk = [p \in Procs |-> None]
    /\ raised = [p \in Procs |-> NoExc]
    /\ released = [p \in Procs |-> FALSE]
    /\ dec_lock_key = None
    /\ dec_kwargs = DecoratorKwargs([repeat |-> DecoRepeat, err_msg |-> None])
    /\ rc_self = assertRaises_init({}, FALSE)
    /\ rc_func = None
    /\ rc_pc = "idle"
    /\ rc_out = [raised |-> None, value |-> ""]
    /\ mh_settings = [n \in {} |-> [has_backend |-> FALSE, BACKEND |-> <<>>]]
    /\ mh_name = "a"
    /\ mh_pc = "idle"
    /\ mh_out = Returned(NoClass)
    /\ pg_qs \in {[i \in 1..n |-> 10 + i] : n \in 0..MaxN}
    /\ pg_per_page \in 1..MaxChunk
    /\ pg_pc = "pages"
    /\ pg_page = NoPage
    /\ pg_i = 0
    /\ pg_out = <<>>

Next ==
    \E p \in Procs :
        \/ \E k \in Keys, r \in 0..MaxRepeat, m \in Msgs : LockNew(p, k, r, m)
        \/ LockTryAdd(p)
        \/ LockRaise(p)
        \/ Release(p)
        \/ Enter(p)
        \/ \E e \in {NoExc, BodyError} : BodyEnd(p, e)
        \/ WithExit(p)
        \/ Del(p)
        \/ \E pk \in CacheKeys : DecoCall(p, pk)
        \/ DecoCheck(p)
        \/ DecoLock(p)
        \/ FuncNoLock(p)

Spec == Init /\ [][Next]_vars

\* the same operations by the threads of one server process
NextThreads ==
    \E p \in Threads :
        \/ \E k \in Keys, r \in 0..MaxRepeat, m \in Msgs : LockNew(p, k, r, m)
        \/ LockTryAdd(p)
        \/ LockRaise(p)
        \/ Release(p)
        \/ Enter(p)
        \/ \E e \in {NoExc, BodyError} : BodyEnd(p, e)
        \/ WithExit(p)
        \/ Del(p)
        \/ \E pk \in CacheKeys : DecoCall(p, pk)
        \/ DecoCheck(p)
        \/ DecoLock(p)
        \/ FuncNoLock(p)

SpecThreads == InitThreads /\ [][NextThreads]_vars

\* Lock used directly, by processes that can be killed, while time passes
NextTTL ==
    \/ \E p \in Procs :
        \/ \E k \in Keys, r \in 0..MaxRepeat, m \in Msgs : LockNew(p, k, r, m)
        \/ LockTryAdd(p)
        \/ LockRaise(p)
        \/ Release(p)
        \/ Enter(p)
        \/ \E e \in {NoExc, BodyError} : BodyEnd(p, e)
        \/ WithExit(p)
        \/ Del(p)
        \/ Crash(p)
    \/ \E d \in TimeSteps : AdvanceTime(d)

\* time passes
Clock == \E d \in TimeSteps : AdvanceTime(d)

SpecTTL == Init /\ [][NextTTL]_vars /\ WF_vars(Clock)

NextRC == RcDecorated \/ RcEntered

SpecRC == InitRC /\ [][NextRC]_vars

NextMH == MhBackend

SpecMH == InitMH /\ [][NextMH]_vars

NextPG == PgNextPage \/ PgNextItem

SpecPG == InitPG /\ [][NextPG]_vars

\* ================================================================ claims

\* C1: no two distinct Lock objects are holders of the same key at once.
MutualExclusion ==
    \A p, q \in Procs :
        (p # q /\ Holder(p) /\ Holder(q)) => lock[p].id # lock[q].id

\* C2: a release on a Lock object that was already released once leaves the
\* cache unchanged.
ReleaseExactlyOnce ==
    [][\A p \in Procs :
          (released[p] /\ (Release(p) \/ WithExit(p) \/ Del(p))) => cache' = cache]_vars

\* C3: while the key is present, every step of Lock.__init__ is either a failed
\* attempt inside the window (elapsed <= repeat) followed by one sleep, or the
\* raise of AcquireLockException with the caller's message, at the first check
\* after the window (at most one polling interval past it); no Lock is
\* returned and no attempt is made after the window.
AcquireFailure ==
    [][\A p \in Procs :
          (/\ pc[p] = "init"
           /\ cache[lock[p].key].present
           /\ (pc'[p] # pc[p] \/ lock'[p] # lock[p]))
          => IF lock[p].elapsed <= lock[p].repeat
             THEN /\ pc'[p] = "init"
                  /\ lock'[p] = [lock[p] EXCEPT !.elapsed = @ + 1]
                  /\ lock'[p].elapsed <= lock[p].repeat + 1
                  /\ raised'[p] = NoExc
             ELSE /\ pc'[p] = "failed"
                  /\ raised'[p] = AcquireLockException(lock[p].err_msg)
                  /\ lock'[p].id = None
                  /\ ~Holder(p)']_vars

AcquireFailureWitness ==
    \E p \in Procs :
        /\ pc[p] = "failed"
        /\ mode[p] = "direct"
        /\ raised[p] = AcquireLockException("busy")
        /\ cache["k1"].present

\* C4: when a with-block on a Lock that acquired k is left, the entry for k is
\* gone (the next cache.add of k succeeds) and the body's exception, if any,
\* still propagates.
ReleaseOnScopeExit ==
    [][\A p \in Procs :
          (pc[p] = "exit" /\ pc'[p] # "exit")
          => /\ pc'[p] = "after"
             /\ ~cache'[lock[p].id].present
             /\ cache_add_ok(cache', lock[p].id)
             /\ raised'[p] = raised[p]]_vars

ReleaseOnScopeExitWitness ==
    \E p \in Procs :
        /\ pc[p] = "after"
        /\ raised[p] = BodyError
        /\ lock[p].id \in Keys
        /\ ~cache[lock[p].id].present

\* C5: every entry is stored with a time-to-live of at most TIMEOUT seconds,
\* and a key that is locked is eventually free again, also when its holder
\* crashed.
BoundedLockLifetime ==
    /\ [](\A k \in CacheKeys : cache[k].present => cache[k].ttl \in 1..TIMEOUT)
    /\ \A k \in CacheKeys : cache[k].present ~> ~cache[k].present

BoundedLockLifetimeWitness ==
    \E p \in Procs :
        /\ pc[p] = "crashed"
        /\ \A q \in Procs : q # p => pc[q] = "idle"
        /\ cache[lock[p].id].present
        /\ cache[lock[p].id].ttl = TIMEOUT \div 2

\* C9: a service_lock call with pk=k runs the function holding Lock(k), a call
\* without pk runs it without a lock.
ServiceLockKeyedByOwnPk ==
    \A p \in Procs :
        mode[p] = "deco" =>
            /\ pc[p] = "init" => lock[p].key = my_pk[p]
            /\ pc[p] = "body" => (my_pk[p] # None /\ lock[p].id = my_pk[p])
            /\ pc[p] = "nolock" => my_pk[p] = None

\* C10: neither a failed Lock(k) nor the destruction of the object it leaves
\* behind changes the cache entry for k.
FailedAcquireKeepsEntry ==
    [][\A p \in Threads :
          (LockRaise(p) \/ (pc[p] = "failed" /\ Del(p)))
          => cache'[lock[p].key] = cache[lock[p].key]]_vars
\* the exception type t is one of, or a subclass of, the configured types
Selected(t) ==
    \E c \in rc_self._excepts.items : IsSubclassOfClass(t, c.name)

\* C6 as written: a selected exception is swallowed, any other propagates.
SelectedAreSwallowed ==
    (rc_pc \in {"decorated", "entered"} /\ rc_func # None) =>
        IF Selected(rc_func) THEN rc_out.raised = None
        ELSE rc_out.raised = rc_func

\* C6 amended: a selected exception propagates, any other exception is
\* swallowed; without an exception the function's result comes back.
SelectedPropagate ==
    rc_pc \in {"decorated", "entered"} =>
        IF rc_func = None THEN rc_out = [raised |-> None, value |-> "result"]
        ELSE IF Selected(rc_func) THEN rc_out.raised = rc_func
        ELSE rc_out.raised = None

SelectedPropagateWitness ==
    /\ rc_pc = "entered"
    /\ rc_func = "KeyError"
    /\ rc_self._excepts.items = {Class("LookupError")}
    /\ rc_out.raised = "KeyError"

\* C7: a name that is not configured and a BACKEND path whose module cannot be
\* imported both end in UnknownModelHandlerException(name); a path that
\* resolves returns the class.
UnknownHandlerRaised ==
    mh_pc = "done" =>
        /\ mh_name \notin DOMAIN mh_settings
              => mh_out = Raised("UnknownModelHandlerException", mh_name)
        /\ (/\ mh_name \in DOMAIN mh_settings
            /\ mh_settings[mh_name] = [has_backend |-> TRUE, BACKEND |-> PathNoModule])
              => mh_out = Raised("UnknownModelHandlerException", mh_name)
        /\ (/\ mh_name \in DOMAIN mh_settings
            /\ mh_settings[mh_name] = [has_backend |-> TRUE, BACKEND |-> PathGood])
              => mh_out = Returned(<<"G">>)

\* C8: items() yields the objects yielded so far as a prefix of the sequence,
\* all of it at the end, each with the page that holds its position and with
\* the paginator.
PaginationComplete ==
    /\ pg_pc \in {"pages", "items", "done"} =>
          /\ Len(pg_out) <= Len(pg_qs)
          /\ \A j \in 1..Len(pg_out) :
                /\ pg_out[j].obj = pg_qs[j]
                /\ pg_out[j].page.number = ((j - 1) \div pg_per_page) + 1
                /\ \E i \in 1..Len(pg_out[j].page.object_list) :
                      pg_out[j].page.object_list[i] = pg_qs[j]
                /\ pg_out[j].paginator = "self"
    /\ pg_pc = "done" => Len(pg_out) = Len(pg_qs)

PaginationCompleteWitness ==
    /\ pg_pc = "done"
    /\ Len(pg_qs) = 4
    /\ pg_per_page = 2
    /\ Len(pg_out) = 4
====
